---- MODULE Spec2Model ----
(***************************************************************************)
(* A model of the conv crate's numeric conversion rules (src/src/impls.rs, *)
(* src/src/lib.rs, src/src/errors.rs).                                     *)
(*                                                                         *)
(* The conversions are pure functions of (pointer width, source type,      *)
(* destination type, scheme, source value).  Init draws these inputs from  *)
(* bounded sets clustered around every boundary the rules compare against; *)
(* one action per trait method applies the conversion and stores the       *)
(* Result.                                                                 *)
(*                                                                         *)
(* 64-bit quantities do not fit the model checker's integers, so every     *)
(* number is held exactly as NLimbs limbs of LimbBits bits, least          *)
(* significant first; the top limb is signed and carries the sign          *)
(* (floor representation: n = SUM limb[i] * Base^(i-1), 0 <= limb[i] <     *)
(* Base for i < NLimbs).                                                   *)
(***************************************************************************)
EXTENDS Integers, Sequences, FiniteSets, TLC

\* ------------------------------------------------------------------------
\* Exact integer arithmetic on limbs
\* ------------------------------------------------------------------------

\* bits per limb and number of limbs of the exact-integer representation
LimbBits == 24
NLimbs == 6

Base == 2^LimbBits
Limbs == 1..NLimbs
\* a limb vector as a tuple
Tup(f) == SubSeq(f, 1, NLimbs)

RECURSIVE Carry(_, _)
Carry(x, i) == IF i = 1 THEN 0 ELSE (x[i-1] + Carry(x, i-1)) \div Base

\* carry propagation: any limb vector to its canonical form
Norm(x) ==
    Tup([i \in Limbs |-> IF i = NLimbs THEN x[i] + Carry(x, i)
                         ELSE (x[i] + Carry(x, i)) % Base])

\* a small integer as an exact integer
BI(k) == Norm([i \in Limbs |-> IF i = 1 THEN k ELSE 0])
Zero == BI(0)
One == BI(1)

Add(a, b) == Norm([i \in Limbs |-> a[i] + b[i]])
Sub(a, b) == Norm([i \in Limbs |-> a[i] - b[i]])
Neg(a) == Norm([i \in Limbs |-> 0 - a[i]])

Less(a, b) ==
    \E i \in Limbs : a[i] < b[i] /\ \A j \in (i+1)..NLimbs : a[j] = b[j]
Leq(a, b) == a = b \/ Less(a, b)
IsNeg(a) == a[NLimbs] < 0
Abs(a) == IF IsNeg(a) THEN Neg(a) ELSE a

\* 2^k
Pow2(k) ==
    LET idx == IF k \div LimbBits + 1 > NLimbs THEN NLimbs ELSE k \div LimbBits + 1
    IN  Tup([i \in Limbs |-> IF i = idx THEN 2^(k - LimbBits * (idx - 1)) ELSE 0])

\* a mod 2^w, in 0 .. 2^w - 1 (floor modulus, also for negative a)
ModPow2(a, w) ==
    Tup([i \in Limbs |->
        LET lo == (i - 1) * LimbBits
        IN  IF w <= lo THEN 0
            ELSE IF i < NLimbs /\ w >= lo + LimbBits THEN a[i]
            ELSE a[i] % 2^(w - lo)])

\* floor(a / 2)
Half(a) ==
    Tup([i \in Limbs |-> IF i = NLimbs THEN a[i] \div 2
                         ELSE a[i] \div 2 + (a[i+1] % 2) * (Base \div 2)])

RECURSIVE ShiftR(_, _)
\* floor(a / 2^s)
ShiftR(a, s) == IF s = 0 THEN a ELSE ShiftR(Half(a), s - 1)

\* m * 2^s for m >= 0, limb by limb: limb j of m lands s bits higher
ShiftLMag(m, s) ==
    LET q == s \div LimbBits
        r == s % LimbBits
    IN  Tup([i \in Limbs |->
            LET j == i - q
            IN  (IF j < 1 THEN 0
                 ELSE IF i = NLimbs THEN m[j] * 2^r
                 ELSE (m[j] % 2^(LimbBits - r)) * 2^r)
                + (IF j < 2 THEN 0 ELSE m[j-1] \div 2^(LimbBits - r))])

\* a * 2^s
ShiftL(a, s) == IF IsNeg(a) THEN Neg(ShiftLMag(Neg(a), s)) ELSE ShiftLMag(a, s)

\* number of significant bits of a small n >= 0 (0 for 0)
BitLenSmall(n) == CHOOSE k \in 0..30 : n < 2^k /\ (k = 0 \/ 2^(k-1) <= n)

\* number of significant bits of a >= 0 (0 for 0)
BitLen(a) ==
    IF a = Zero THEN 0
    ELSE LET top == CHOOSE i \in Limbs : a[i] # 0 /\ \A j \in (i+1)..NLimbs : a[j] = 0
         IN  LimbBits * (top - 1) + BitLenSmall(a[top])

\* ------------------------------------------------------------------------
\* Numeric types and values
\* ------------------------------------------------------------------------

SignedInts == {"i8", "i16", "i32", "i64", "isize"}
UnsignedInts == {"u8", "u16", "u32", "u64", "usize"}
IntTypes == SignedInts \cup UnsignedInts
FloatTypes == {"f32", "f64"}
NumTypes == IntTypes \cup FloatTypes

\* the types the conversion traits are implemented between
AllTypes == NumTypes \cup {"char"}

\* target_pointer_width of the build
PtrWidths == {32, 64}

\* bit width of an integer type under pointer width p
Bits(p, t) ==
    CASE t \in {"i8", "u8"} -> 8
      [] t \in {"i16", "u16"} -> 16
      [] t \in {"i32", "u32"} -> 32
      [] t \in {"i64", "u64"} -> 64
      [] t \in {"isize", "usize"} -> p

\* significand precision of a float type: f32 has 24 bits, f64 has 53
Prec(t) == IF t = "f32" THEN 24 ELSE 53

\* binary digits kept after the point in a finite float value of the model
FracBits == 2

\* A value is a record [k, n].  k = "int": the integer n.  k = "fin": the
\* finite float n / 2^FracBits.  k = "nan", "pinf", "ninf": n is Zero.
\* (Negative zero is not distinguished from zero: no rule tells them apart.)
IntV(n) == [k |-> "int", n |-> n]
CharV(n) == [k |-> "char", n |-> n]
FinV(q) == [k |-> "fin", n |-> q]
NaN == [k |-> "nan", n |-> Zero]
PosInf == [k |-> "pinf", n |-> Zero]
NegInf == [k |-> "ninf", n |-> Zero]

\* the exact numeric value of an integer or finite float, scaled by 2^FracBits
Num(v) == IF v.k = "int" THEN ShiftL(v.n, FracBits) ELSE v.n

\* ::std::$name::MAX and ::std::$name::MIN of an integer type
max_of(p, t) ==
    IF t \in SignedInts THEN IntV(Sub(Pow2(Bits(p, t) - 1), One))
    ELSE IntV(Sub(Pow2(Bits(p, t)), One))

min_of(p, t) ==
    IF t \in SignedInts THEN IntV(Neg(Pow2(Bits(p, t) - 1)))
    ELSE IntV(Zero)

\* round m >= 0 to p significant bits, ties to even
RoundMag(m, p) ==
    LET s == BitLen(m) - p
    IN  IF s <= 0 THEN m
        ELSE LET r == ModPow2(m, s)
                 half == Pow2(s - 1)
                 odd == ~ Less(ModPow2(m, s + 1), Pow2(s))
                 up == Less(half, r) \/ (r = half /\ odd)
                 down == Sub(m, r)
             IN  IF up THEN Add(down, Pow2(s)) ELSE down

\* round to nearest value with p significant bits (the exponent range of
\* both float types covers every magnitude the model holds)
RoundToPrec(a, p) ==
    IF IsNeg(a) THEN Neg(RoundMag(Neg(a), p)) ELSE RoundMag(a, p)

\* float comparison a <= b: false when either side is NaN
FLeq(a, b) ==
    CASE a.k = "nan" \/ b.k = "nan" -> FALSE
      [] a.k = "ninf" \/ b.k = "pinf" -> TRUE
      [] a.k = "pinf" \/ b.k = "ninf" -> FALSE
      [] OTHER -> Leq(a.n, b.n)

\* integer comparison a <= b within one integer type
ILeq(a, b) == Leq(a.n, b.n)

\* `v as t`, integer to integer: keeps the low Bits(t) bits, read in two's
\* complement when t is signed
AsIntToInt(p, v, t) ==
    LET w == Bits(p, t)
        m == ModPow2(v.n, w)
    IN  IF t \in SignedInts /\ ~ Less(m, Pow2(w - 1))
        THEN IntV(Sub(m, Pow2(w)))
        ELSE IntV(m)

\* `v as t`, integer to float: rounds to the nearest float
AsIntToFloat(v, t) == FinV(RoundToPrec(ShiftL(v.n, FracBits), Prec(t)))

\* ::std::f32::MAX = (2^24 - 1) * 2^104 and ::std::f32::MIN = -MAX;
\* ::std::f64::MAX is beyond every magnitude the model holds
F32_MAX == FinV(ShiftL(Sub(Pow2(24), One), 104 + FracBits))
F32_MIN == FinV(Neg(F32_MAX.n))

\* `v as t`, float to float: rounds to t's precision; a magnitude that rounds
\* past f32::MAX becomes an infinity
AsFloatToFloat(v, t) ==
    IF v.k # "fin" THEN v
    ELSE LET r == RoundToPrec(v.n, Prec(t))
         IN  IF t = "f32" /\ Less(F32_MAX.n, r) THEN PosInf
             ELSE IF t = "f32" /\ Less(r, F32_MIN.n) THEN NegInf
             ELSE FinV(r)

\* `v as t` for an integer v
AsFromInt(p, v, t) ==
    IF t \in IntTypes THEN AsIntToInt(p, v, t) ELSE AsIntToFloat(v, t)

\* f.trunc(), f.floor(), f.ceil(), f.round() (half away from zero)
FloorQ(q) == Sub(q, ModPow2(q, FracBits))
TruncQ(q) == IF IsNeg(q) THEN Neg(FloorQ(Neg(q))) ELSE FloorQ(q)
trunc(f) == IF f.k = "fin" THEN FinV(TruncQ(f.n)) ELSE f
floor(f) == IF f.k = "fin" THEN FinV(FloorQ(f.n)) ELSE f
ceil(f) == IF f.k = "fin" THEN FinV(Neg(FloorQ(Neg(f.n)))) ELSE f
round(f) ==
    IF f.k = "fin"
    THEN FinV(IF IsNeg(f.n)
              THEN Neg(FloorQ(Add(Neg(f.n), Pow2(FracBits - 1))))
              ELSE FloorQ(Add(f.n, Pow2(FracBits - 1))))
    ELSE f

\* whether the truncation of finite float f lies in the range of integer type t
InRange(p, f, t) ==
    LET i == ShiftR(TruncQ(f.n), FracBits)
    IN  Leq(min_of(p, t).n, i) /\ Leq(i, max_of(p, t).n)

\* `f as t`, float to integer: the set of results a build can produce.
\* In range the cast truncates toward zero.  Out of range (and for NaN) the
\* cast is undefined in the compilers the crate was written for and
\* saturating in later ones: any of the saturated bound, the wrapped low
\* bits, or zero.
AsFloatToInt(p, f, t) ==
    IF f.k = "fin" /\ InRange(p, f, t)
    THEN {IntV(ShiftR(TruncQ(f.n), FracBits))}
    ELSE IF f.k = "fin"
    THEN {max_of(p, t), min_of(p, t), IntV(Zero),
          AsIntToInt(p, IntV(ShiftR(TruncQ(f.n), FracBits)), t)}
    ELSE {max_of(p, t), min_of(p, t), IntV(Zero)}


\* ------------------------------------------------------------------------
\* Results and error kinds
\* ------------------------------------------------------------------------

\* Result<Dst, E>: E is the impl's associated Err type.  impls.rs spells the
\* range failures NegOverflow / PosOverflow; errors.rs and the crate docs
\* call the same failures Underflow / Overflow, the names used here.
Ok(E, v) == [tag |-> "Ok", val |-> v, err |-> "none", ety |-> E]
Err(E, e) == [tag |-> "Err", val |-> NaN, err |-> e, ety |-> E]
\* an error that carries the rejected source: Unrepresentable<T>(src),
\* PosOverflow<char>(src)
ErrOf(E, e, a) == [tag |-> "Err", val |-> a, err |-> e, ety |-> E]
NoResult == [tag |-> "none", val |-> NaN, err |-> "none", ety |-> "none"]

Schemes == {"DefaultApprox", "Wrapping", "RoundToNearest", "RoundToNegInf",
            "RoundToPosInf", "RoundToZero"}

\* ------------------------------------------------------------------------
\* Rule tables (the num_conv! invocations)
\* ------------------------------------------------------------------------

\* the nf bounds: 16_777_216 and 9_007_199_254_740_992 = 2^53
Bound24 == BI(16777216)
Bound53 == Pow2(53)

\* The entries of the num_conv! invocations with source type src, one set
\* per invocation.  An entry is [cfg, rule, dst, bound]: cfg = 0 for no
\* attribute, 32 or 64 for #[32] / #[64]; bound is the nf rule's literal.
R(c, r, d) == [cfg |-> c, rule |-> r, dst |-> d, bound |-> Zero]
Rb(c, r, d, b) == [cfg |-> c, rule |-> r, dst |-> d, bound |-> b]

lang_ints(src) ==
    CASE src = "i8" ->
             {R(0,"w","i16"), R(0,"w","i32"), R(0,"w","i64"), R(0,"w+","u8"), R(0,"w+","u16"), R(0,"w+","u32"), R(0,"w+","u64"), R(0,"w","isize"), R(0,"w+","usize")}
      [] src = "i16" ->
             {R(0,"n","i8"), R(0,"w","i32"), R(0,"w","i64"), R(0,"n+","u8"), R(0,"w+","u16"), R(0,"w+","u32"), R(0,"w+","u64"), R(0,"w","isize"), R(0,"w+","usize")}
      [] src = "i32" ->
             {R(0,"n","i8"), R(0,"n","i16"), R(0,"w","i64"), R(0,"n+","u8"), R(0,"n+","u16"), R(0,"w+","u32"), R(0,"w+","u64")}
             \cup {R(32,"e","isize"), R(64,"w","isize"), R(0,"w+","usize")}
      [] src = "i64" ->
             {R(0,"n","i8"), R(0,"n","i16"), R(0,"n","i32"), R(0,"n+","u8"), R(0,"n+","u16"), R(0,"n+","u32"), R(0,"w+","u64")}
             \cup {R(32,"n","isize"), R(64,"e","isize"), R(0,"n+","usize")}
      [] src = "u8" ->
             {R(0,"n-","i8"), R(0,"w","i16"), R(0,"w","i32"), R(0,"w","i64"), R(0,"w","u16"), R(0,"w","u32"), R(0,"w","u64"), R(0,"w","isize"), R(0,"w","usize")}
      [] src = "u16" ->
             {R(0,"n-","i8"), R(0,"n-","i16"), R(0,"w","i32"), R(0,"w","i64"), R(0,"n-","u8"), R(0,"w","u32"), R(0,"w","u64"), R(0,"w","isize"), R(0,"w","usize")}
      [] src = "u32" ->
             {R(0,"n-","i8"), R(0,"n-","i16"), R(0,"n-","i32"), R(0,"w","i64"), R(0,"n-","u8"), R(0,"n-","u16"), R(0,"w","u64")}
             \cup {R(32,"n-","isize"), R(64,"w","isize"), R(32,"e","usize"), R(64,"w","usize")}
      [] src = "u64" ->
             {R(0,"n-","i8"), R(0,"n-","i16"), R(0,"n-","i32"), R(0,"n-","i64"), R(0,"n-","u8"), R(0,"n-","u16"), R(0,"n-","u32")}
             \cup {R(0,"n-","isize"), R(32,"n-","usize"), R(64,"e","usize")}
      [] src = "isize" ->
             {R(0,"n","i8"), R(0,"n","i16"), R(32,"e","i32"), R(32,"w","i64"), R(64,"n","i32"), R(64,"e","i64")}
             \cup {R(0,"n+","u8"), R(0,"n+","u16"), R(32,"w+","u32"), R(32,"w+","u64"), R(64,"n+","u32"), R(64,"w+","u64")}
             \cup {R(0,"w+","usize")}
      [] src = "usize" ->
             {R(0,"n-","i8"), R(0,"n-","i16"), R(32,"n-","i32"), R(32,"w","i64"), R(64,"n-","i32"), R(64,"n-","i64")}
             \cup {R(0,"n-","u8"), R(0,"n-","u16"), R(32,"e","u32"), R(32,"w","u64"), R(64,"n-","u32"), R(64,"e","u64")}
             \cup {R(0,"n-","isize")}
      [] OTHER -> {}

lang_int_to_float(src) ==
    CASE src = "i8" ->
             {R(0,"w","f32"), R(0,"w","f64")}
      [] src = "i16" ->
             {R(0,"w","f32"), R(0,"w","f64")}
      [] src = "i32" ->
             {Rb(0,"nf+-","f32",Bound24), R(0,"w","f64")}
      [] src = "i64" ->
             {Rb(0,"nf+-","f32",Bound24), Rb(0,"nf+-","f64",Bound53)}
      [] src = "u8" ->
             {R(0,"w","f32"), R(0,"w","f64")}
      [] src = "u16" ->
             {R(0,"w","f32"), R(0,"w","f64")}
      [] src = "u32" ->
             {Rb(0,"nf,","f32",Bound24), R(0,"w","f64")}
      [] src = "u64" ->
             {Rb(0,"nf,","f32",Bound24), Rb(0,"nf,","f64",Bound53)}
      [] OTHER -> {}

lang_float_to_int(src) ==
    CASE src = "f32" ->
             {R(0,"fan","i8"), R(0,"fan","i16"), R(0,"fan","i32"), R(0,"fan","i64")}
             \cup {R(0,"fan","u8"), R(0,"fan","u16"), R(0,"fan","u32"), R(0,"fan","u64")}
             \cup {R(0,"fan","isize"), R(0,"fan","usize")}
      [] src = "f64" ->
             {R(0,"fan","i8"), R(0,"fan","i16"), R(0,"fan","i32"), R(0,"fan","i64")}
             \cup {R(0,"fan","u8"), R(0,"fan","u16"), R(0,"fan","u32"), R(0,"fan","u64")}
             \cup {R(0,"fan","isize"), R(0,"fan","usize")}
      [] OTHER -> {}

\* every entry with source type s
num_conv(s) == lang_ints(s) \cup lang_int_to_float(s) \cup lang_float_to_int(s)

\* the rules the build compiles for pointer width p from s to d
RulesFor(p, s, d) ==
    {r \in num_conv(s) : r.dst = d /\ (r.cfg = 0 \/ r.cfg = p)}

\* ------------------------------------------------------------------------
\* The generated impls (macros of impls.rs), integer or float source `src`
\* ------------------------------------------------------------------------

\* variant of approx_blind!: an integer destination saturates at its bounds
approx_blind_saturating(p, s, d, src) ==
    IF d \in FloatTypes THEN Ok("NoError", AsIntToFloat(src, d))
    ELSE IF ILeq(max_of(p, d), src) THEN Ok("NoError", max_of(p, d))
    ELSE IF ILeq(src, min_of(p, d)) THEN Ok("NoError", min_of(p, d))
    ELSE Ok("NoError", src)

\* approx_blind!: Ok(src as $dst)
approx_blind(p, s, d, src) == Ok("NoError", AsFromInt(p, src, d))

\* approx_z_to_dmax!
approx_z_to_dmax(p, s, d, src) ==
    IF ~ ILeq(IntV(Zero), src) THEN Err("RangeError", "Underflow")
    ELSE IF ~ ILeq(src, AsIntToInt(p, max_of(p, d), s)) THEN Err("RangeError", "Overflow")
    ELSE Ok("RangeError", AsIntToInt(p, src, d))

\* variant of approx_to_dmax!: the destination's maximum itself is rejected
approx_to_dmax_strict(p, s, d, src) ==
    IF ~ Less(src.n, AsIntToInt(p, max_of(p, d), s).n) THEN Err("Overflow", "Overflow")
    ELSE Ok("Overflow", AsIntToInt(p, src, d))

\* approx_to_dmax!
approx_to_dmax(p, s, d, src) ==
    IF ~ ILeq(src, AsIntToInt(p, max_of(p, d), s)) THEN Err("Overflow", "Overflow")
    ELSE Ok("Overflow", AsIntToInt(p, src, d))

\* approx_dmin_to_dmax!
approx_dmin_to_dmax(p, s, d, src) ==
    IF ~ ILeq(AsIntToInt(p, min_of(p, d), s), src) THEN Err("RangeError", "Underflow")
    ELSE IF ~ ILeq(src, AsIntToInt(p, max_of(p, d), s)) THEN Err("RangeError", "Overflow")
    ELSE Ok("RangeError", AsIntToInt(p, src, d))

\* approx_z_up!
approx_z_up(p, s, d, src) ==
    IF ~ ILeq(IntV(Zero), src) THEN Err("Underflow", "Underflow")
    ELSE Ok("Underflow", AsIntToInt(p, src, d))

\* the approx: closure of each scheme in the fan rule (identity by default)
fan_conv(S, f) ==
    CASE S = "RoundToNearest" -> round(f)
      [] S = "RoundToNegInf" -> floor(f)
      [] S = "RoundToPosInf" -> ceil(f)
      [] S = "RoundToZero" -> trunc(f)
      [] OTHER -> f

\* variant of approx_dmin_to_dmax_no_nan!: without the is_nan test
approx_dmin_to_dmax_unchecked(p, S, s, d, src) ==
    LET approx == fan_conv(S, src)
    IN  IF ~ FLeq(AsIntToFloat(min_of(p, d), s), approx)
        THEN {Err("FloatError", "Underflow")}
        ELSE IF ~ FLeq(approx, AsIntToFloat(max_of(p, d), s))
        THEN {Err("FloatError", "Overflow")}
        ELSE {Ok("FloatError", v) : v \in AsFloatToInt(p, approx, d)}

\* approx_dmin_to_dmax_no_nan!: the set of results the final cast allows
approx_dmin_to_dmax_no_nan(p, S, s, d, src) ==
    IF src.k = "nan" THEN {Err("FloatError", "NotANumber")}
    ELSE LET approx == fan_conv(S, src)
         IN  IF ~ FLeq(AsIntToFloat(min_of(p, d), s), approx)
             THEN {Err("FloatError", "Underflow")}
             ELSE IF ~ FLeq(approx, AsIntToFloat(max_of(p, d), s))
             THEN {Err("FloatError", "Overflow")}
             ELSE {Ok("FloatError", v) : v \in AsFloatToInt(p, approx, d)}

\* ValueFrom of the e rule
value_from_e(p, s, d, src) == Ok("NoError", AsFromInt(p, src, d))

\* ValueFrom of the n+ rule
value_from_n_plus(p, s, d, src) ==
    IF ~ ILeq(IntV(Zero), src) THEN Err("RangeError", "Underflow")
    ELSE IF ~ ILeq(src, AsIntToInt(p, max_of(p, d), s)) THEN Err("RangeError", "Overflow")
    ELSE Ok("RangeError", AsIntToInt(p, src, d))

\* variant of the n- rule: the destination's maximum itself is rejected
value_from_n_minus_strict(p, s, d, src) ==
    IF ~ Less(src.n, AsIntToInt(p, max_of(p, d), s).n) THEN Err("Overflow", "Overflow")
    ELSE Ok("Overflow", AsIntToInt(p, src, d))

\* ValueFrom of the n- rule
value_from_n_minus(p, s, d, src) ==
    IF ~ ILeq(src, AsIntToInt(p, max_of(p, d), s)) THEN Err("Overflow", "Overflow")
    ELSE Ok("Overflow", AsIntToInt(p, src, d))

\* ValueFrom of the n rule
value_from_n(p, s, d, src) ==
    IF ~ ILeq(AsIntToInt(p, min_of(p, d), s), src) THEN Err("RangeError", "Underflow")
    ELSE IF ~ ILeq(src, AsIntToInt(p, max_of(p, d), s)) THEN Err("RangeError", "Overflow")
    ELSE Ok("RangeError", AsIntToInt(p, src, d))

\* variant of the w+ rule: without the sign test
value_from_w_plus_blind(p, s, d, src) == Ok("Underflow", AsIntToInt(p, src, d))

\* ValueFrom of the w+ rule
value_from_w_plus(p, s, d, src) ==
    IF ~ ILeq(IntV(Zero), src) THEN Err("Underflow", "Underflow")
    ELSE Ok("Underflow", AsIntToInt(p, src, d))

\* variant of the w rule: negative sources are rejected
value_from_w_checked(p, s, d, src) ==
    IF ~ ILeq(IntV(Zero), src) THEN Err("NoError", "Underflow")
    ELSE Ok("NoError", AsFromInt(p, src, d))

\* ValueFrom of the w rule
value_from_w(p, s, d, src) == Ok("NoError", AsFromInt(p, src, d))

\* variant of the nf [+- bound] rule: one more than the bound is accepted
value_from_nf_pm_loose(p, s, d, bound, src) ==
    IF ~ ILeq(IntV(Neg(Add(bound, One))), src) THEN Err("RangeError", "Underflow")
    ELSE IF ~ ILeq(src, IntV(Add(bound, One))) THEN Err("RangeError", "Overflow")
    ELSE Ok("RangeError", AsIntToFloat(src, d))

\* ValueFrom of the nf [+- bound] rule
value_from_nf_pm(p, s, d, bound, src) ==
    IF ~ ILeq(IntV(Neg(bound)), src) THEN Err("RangeError", "Underflow")
    ELSE IF ~ ILeq(src, IntV(bound)) THEN Err("RangeError", "Overflow")
    ELSE Ok("RangeError", AsIntToFloat(src, d))

\* ValueFrom of the nf [, max] rule
value_from_nf_max(p, s, d, max, src) ==
    IF ~ ILeq(src, IntV(max)) THEN Err("Overflow", "Overflow")
    ELSE Ok("Overflow", AsIntToFloat(src, d))

\* variant of ApproxFrom<f32, Scheme> for f64: NaN is rejected
approx_from_f32_f64_no_nan(src) ==
    IF src.k = "nan" THEN Err("NoError", "NotANumber")
    ELSE Ok("NoError", AsFloatToFloat(src, "f64"))

\* ApproxFrom<f32, Scheme> for f64 and ValueFrom<f32> for f64
approx_from_f32_f64(src) == Ok("NoError", AsFloatToFloat(src, "f64"))
value_from_f32_f64(src) == Ok("NoError", AsFloatToFloat(src, "f64"))

\* variant of ApproxFrom<f64> for f32: the cast without the range tests
approx_from_f64_f32_unchecked(src) == Ok("RangeError", AsFloatToFloat(src, "f32"))

\* ApproxFrom<f64> for f32 (DefaultApprox)
approx_from_f64_f32(src) ==
    IF src.k # "fin" THEN Ok("RangeError", AsFloatToFloat(src, "f32"))
    ELSE IF ~ FLeq(AsFloatToFloat(F32_MIN, "f64"), src) THEN Err("RangeError", "Underflow")
    ELSE IF ~ FLeq(src, AsFloatToFloat(F32_MAX, "f64")) THEN Err("RangeError", "Overflow")
    ELSE Ok("RangeError", AsFloatToFloat(src, "f32"))

\* variant of the blanket ApproxFrom impl: NaN is rejected
approx_from_refl_no_nan(src) ==
    IF src.k = "nan" THEN Err("NoError", "NotANumber") ELSE Ok("NoError", src)

\* the blanket impls *From<Src> for Src
approx_from_refl(src) == Ok("NoError", src)
value_from_refl(src) == Ok("NoError", src)
try_from_refl(src) == Ok("NoError", src)

\* ------------------------------------------------------------------------
\* Trait dispatch: which impl the compiler selects for (s, d[, scheme])
\* ------------------------------------------------------------------------

TheRule(p, s, d) == CHOOSE r \in RulesFor(p, s, d) : TRUE

has_value_from(p, s, d) ==
    \/ s = d
    \/ s = "f32" /\ d = "f64"
    \/ \E r \in RulesFor(p, s, d) : r.rule # "fan"

value_from(p, s, d, src) ==
    IF s = d THEN value_from_refl(src)
    ELSE IF s = "f32" /\ d = "f64" THEN value_from_f32_f64(src)
    ELSE LET r == TheRule(p, s, d)
         IN  CASE r.rule = "e" -> value_from_e(p, s, d, src)
               [] r.rule = "n+" -> value_from_n_plus(p, s, d, src)
               [] r.rule = "n-" -> value_from_n_minus(p, s, d, src)
               [] r.rule = "n" -> value_from_n(p, s, d, src)
               [] r.rule = "w+" -> value_from_w_plus(p, s, d, src)
               [] r.rule = "w" -> value_from_w(p, s, d, src)
               [] r.rule = "nf+-" -> value_from_nf_pm(p, s, d, r.bound, src)
               [] r.rule = "nf," -> value_from_nf_max(p, s, d, r.bound, src)

\* variant of the nf rules: a Wrapping impl is generated too
rule_schemes_nf_wrapping(rule) ==
    IF rule = "fan"
    THEN {"DefaultApprox", "RoundToNearest", "RoundToNegInf", "RoundToPosInf",
          "RoundToZero"}
    ELSE {"DefaultApprox", "Wrapping"}

\* the schemes each rule generates an ApproxFrom impl for
rule_schemes(rule) ==
    CASE rule \in {"e", "n+", "n-", "n", "w+", "w"} -> {"DefaultApprox", "Wrapping"}
      [] rule \in {"nf+-", "nf,"} -> {"DefaultApprox"}
      [] rule = "fan" -> {"DefaultApprox", "RoundToNearest", "RoundToNegInf",
                          "RoundToPosInf", "RoundToZero"}

has_approx_from(p, S, s, d) ==
    \/ s = d
    \/ s = "f32" /\ d = "f64"
    \/ s = "f64" /\ d = "f32" /\ S = "DefaultApprox"
    \/ \E r \in RulesFor(p, s, d) : S \in rule_schemes(r.rule)

\* the DefaultApprox impl of an integer rule
approx_default(p, rule, s, d, src) ==
    CASE rule = "n+" -> approx_z_to_dmax(p, s, d, src)
      [] rule = "n-" -> approx_to_dmax(p, s, d, src)
      [] rule = "n" -> approx_dmin_to_dmax(p, s, d, src)
      [] rule = "w+" -> approx_z_up(p, s, d, src)
      [] OTHER -> approx_blind(p, s, d, src)

\* the set of results approx_from can return
approx_from(p, S, s, d, src) ==
    IF s = d THEN {approx_from_refl(src)}
    ELSE IF s = "f32" /\ d = "f64" THEN {approx_from_f32_f64(src)}
    ELSE IF s = "f64" /\ d = "f32" THEN {approx_from_f64_f32(src)}
    ELSE LET r == TheRule(p, s, d)
         IN  IF r.rule = "fan" THEN approx_dmin_to_dmax_no_nan(p, S, s, d, src)
             ELSE IF S = "Wrapping" THEN {approx_blind(p, s, d, src)}
             ELSE {approx_default(p, r.rule, s, d, src)}

\* UnwrapOk::unwrap_ok: the contained value; on Err the call never returns
Diverges == [k |-> "diverges", n |-> Zero]
unwrap_ok(r) == IF r.tag = "Ok" THEN r.val ELSE Diverges

\* mod lang_char_to_int: TryFrom<char> for u32 / usize / isize
try_from_char_cast(p, d, src) == Ok("NoError", AsIntToInt(p, IntV(src.n), d))

\* variant of conv_char_to_int!: the cast without the range test
conv_char_to_int_blind(p, d, src) == Ok("Overflow", AsIntToInt(p, IntV(src.n), d))

\* conv_char_to_int!: TryFrom<char> for i8, i16, i32, u8, u16
conv_char_to_int(p, d, src) ==
    LET r == value_from(p, "u32", d, AsIntToInt(p, IntV(src.n), "u32"))
    IN  IF r.tag = "Ok" THEN Ok("Overflow", r.val)
        ELSE ErrOf("Overflow", "Overflow", src)

\* conv_char_to_int_wide!: TryFrom<char> for i64, u64
conv_char_to_int_wide(p, d, src) ==
    value_from(p, "u32", d, AsIntToInt(p, IntV(src.n), "u32"))

\* ::std::char::from_u32: Some(char) unless v is a surrogate or above 0x10FFFF
char_from_u32(v) ==
    IF \/ Less(BI(1114111), v.n)
       \/ (Leq(BI(55296), v.n) /\ Leq(v.n, BI(57343)))
    THEN "None"
    ELSE "Some"

\* mod lang_int_to_char: TryFrom<u8> for char
try_from_u8_char(src) == Ok("NoError", CharV(src.n))

\* variant of TryFrom<u32> for char: only the upper limit is tested
try_from_u32_char_no_surrogates(src) ==
    IF Less(BI(1114111), src.n) THEN ErrOf("Unrepresentable", "Unrepresentable", src)
    ELSE Ok("Unrepresentable", CharV(src.n))

\* TryFrom<u32> for char
try_from_u32_char(src) ==
    IF char_from_u32(src) = "None" THEN ErrOf("Unrepresentable", "Unrepresentable", src)
    ELSE Ok("Unrepresentable", CharV(src.n))

\* TryFrom<u16> for char
try_from_u16_char(p, src) ==
    LET r == try_from_u32_char(unwrap_ok(value_from(p, "u16", "u32", src)))
    IN  IF r.tag = "Ok" THEN r
        ELSE ErrOf("Unrepresentable", "Unrepresentable", src)

\* conv_int_to_char!: TryFrom<$ts> for char, $ts one of i8, i16, i32, i64,
\* isize, u64, usize
conv_int_to_char(p, s, src) ==
    LET usv == value_from(p, s, "u32", src)
    IN  IF usv.tag # "Ok" THEN ErrOf("Unrepresentable", "Unrepresentable", src)
        ELSE LET r == try_from_u32_char(usv.val)
             IN  IF r.tag = "Ok" THEN r
                 ELSE ErrOf("Unrepresentable", "Unrepresentable", src)

has_try_from(s, d) ==
    \/ s = d
    \/ s = "char" /\ d \in IntTypes
    \/ s \in IntTypes /\ d = "char"

try_from(p, s, d, src) ==
    CASE s = d -> try_from_refl(src)
      [] s = "char" /\ d \in {"u32", "usize", "isize"} -> try_from_char_cast(p, d, src)
      [] s = "char" /\ d \in {"i8", "i16", "i32", "u8", "u16"} -> conv_char_to_int(p, d, src)
      [] s = "char" /\ d \in {"i64", "u64"} -> conv_char_to_int_wide(p, d, src)
      [] s = "u8" /\ d = "char" -> try_from_u8_char(src)
      [] s = "u16" /\ d = "char" -> try_from_u16_char(p, src)
      [] s = "u32" /\ d = "char" -> try_from_u32_char(src)
      [] OTHER -> conv_int_to_char(p, s, src)

\* ------------------------------------------------------------------------
\* Error types and their From conversions (errors.rs)
\* ------------------------------------------------------------------------

ErrorTypes == {"NoError", "Underflow", "Overflow", "RangeError", "FloatError",
               "Unrepresentable", "GeneralError"}

\* the values of each error type (NoError has none)
Kinds(E) ==
    CASE E = "NoError" -> {}
      [] E = "Underflow" -> {"Underflow"}
      [] E = "Overflow" -> {"Overflow"}
      [] E = "RangeError" -> {"Underflow", "Overflow"}
      [] E = "FloatError" -> {"Underflow", "Overflow", "NotANumber"}
      [] E = "Unrepresentable" -> {"Unrepresentable"}
      [] E = "GeneralError" -> {"Underflow", "Overflow", "Unrepresentable"}

\* the pairs <<A, B>> with an impl From<A> for B in errors.rs
FromImpls ==
    {<<"NoError", B>> : B \in {"GeneralError", "Underflow", "Overflow",
                               "FloatError", "RangeError"}}
    \cup {<<A, "GeneralError">> : A \in {"Unrepresentable", "Underflow", "Overflow",
                                         "RangeError", "FloatError"}}
    \cup {<<A, "FloatError">> : A \in {"Underflow", "Overflow", "RangeError"}}
    \cup {<<A, "RangeError">> : A \in {"Underflow", "Overflow"}}

\* From<NoError> for GeneralError / Underflow / Overflow / FloatError /
\* RangeError: panic!
from_NoError(e) == "panic"

\* From<Unrepresentable<T>> for GeneralError
GeneralError_from_Unrepresentable(e) == "Unrepresentable"

\* From<Underflow> for GeneralError, From<Overflow> for GeneralError
GeneralError_from_Underflow(e) == "Underflow"
GeneralError_from_Overflow(e) == "Overflow"

\* variant of From<RangeError> for GeneralError: the match arms crossed
GeneralError_from_RangeError_crossed(e) ==
    IF e = "Underflow" THEN "Overflow" ELSE "Underflow"

\* From<RangeError> for GeneralError
GeneralError_from_RangeError(e) ==
    CASE e = "Underflow" -> "Underflow"
      [] e = "Overflow" -> "Overflow"

\* variant of From<FloatError> for GeneralError: NotANumber taken for an
\* overflow
GeneralError_from_FloatError_nan_overflow(e) ==
    CASE e = "Underflow" -> "Underflow"
      [] e = "Overflow" -> "Overflow"
      [] e = "NotANumber" -> "Overflow"

\* From<FloatError> for GeneralError
GeneralError_from_FloatError(e) ==
    CASE e = "Underflow" -> "Underflow"
      [] e = "Overflow" -> "Overflow"
      [] e = "NotANumber" -> "Unrepresentable"

\* From<Underflow> for FloatError, From<Overflow> for FloatError
FloatError_from_Underflow(e) == "Underflow"
FloatError_from_Overflow(e) == "Overflow"

\* From<RangeError> for FloatError
FloatError_from_RangeError(e) ==
    CASE e = "Underflow" -> "Underflow"
      [] e = "Overflow" -> "Overflow"

\* From<Underflow> for RangeError, From<Overflow> for RangeError
RangeError_from_Underflow(e) == "Underflow"
RangeError_from_Overflow(e) == "Overflow"

\* B::from(e) for e of type A: the impl of errors.rs, or the identity of
\* core's impl From<T> for T
from(A, B, e) ==
    CASE A = B -> e
      [] A = "NoError" -> from_NoError(e)
      [] A = "Unrepresentable" /\ B = "GeneralError" -> GeneralError_from_Unrepresentable(e)
      [] A = "Underflow" /\ B = "GeneralError" -> GeneralError_from_Underflow(e)
      [] A = "Overflow" /\ B = "GeneralError" -> GeneralError_from_Overflow(e)
      [] A = "RangeError" /\ B = "GeneralError" -> GeneralError_from_RangeError(e)
      [] A = "FloatError" /\ B = "GeneralError" -> GeneralError_from_FloatError(e)
      [] A = "Underflow" /\ B = "FloatError" -> FloatError_from_Underflow(e)
      [] A = "Overflow" /\ B = "FloatError" -> FloatError_from_Overflow(e)
      [] A = "RangeError" /\ B = "FloatError" -> FloatError_from_RangeError(e)
      [] A = "Underflow" /\ B = "RangeError" -> RangeError_from_Underflow(e)
      [] A = "Overflow" /\ B = "RangeError" -> RangeError_from_Overflow(e)

\* r.map_err(From::from) into error type B: an Ok keeps its value; the
\* error enums of errors.rs carry no payload
map_err_from(r, B) ==
    IF r.tag = "Ok" THEN Ok(B, r.val)
    ELSE IF r.ety = B THEN r
    ELSE Err(B, from(r.ety, B, r.err))

\* Saturated::saturated_max / saturated_min of an integer type
saturated_max(p, T) == max_of(p, T)
saturated_min(p, T) == min_of(p, T)

\* T: Saturated, for the integer types
has_saturated(T) == T \in IntTypes

\* E: Into<RangeError>
into_RangeError(E) == E = "RangeError" \/ <<E, "RangeError">> \in FromImpls

\* variant of unwrap_or_saturate: the two error arms crossed
unwrap_or_saturate_crossed(p, T, r) ==
    LET m == map_err_from(r, "RangeError")
    IN  CASE m.tag = "Ok" -> m.val
          [] m.err = "Underflow" -> saturated_max(p, T)
          [] OTHER -> saturated_min(p, T)

\* UnwrapOrSaturate::unwrap_or_saturate for Result<T, E>
unwrap_or_saturate(p, T, r) ==
    LET m == map_err_from(r, "RangeError")
    IN  CASE m.tag = "Ok" -> m.val
          [] m.err = "Underflow" -> saturated_min(p, T)
          [] m.err = "Overflow" -> saturated_max(p, T)

\* T: SignedInfinity, for the float types
has_signed_infinity(T) == T \in FloatTypes

\* SignedInfinity::neg_infinity / pos_infinity of a float type
neg_infinity(T) == NegInf
pos_infinity(T) == PosInf

\* variant of unwrap_or_inf: the two error arms crossed
unwrap_or_inf_crossed(T, r) ==
    LET m == map_err_from(r, "RangeError")
    IN  CASE m.tag = "Ok" -> m.val
          [] m.err = "Underflow" -> pos_infinity(T)
          [] OTHER -> neg_infinity(T)

\* UnwrapOrInf::unwrap_or_inf for Result<T, E>
unwrap_or_inf(T, r) ==
    LET m == map_err_from(r, "RangeError")
    IN  CASE m.tag = "Ok" -> m.val
          [] m.err = "Underflow" -> neg_infinity(T)
          [] m.err = "Overflow" -> pos_infinity(T)

\* T: InvalidSentinel, for the numeric types
has_invalid_sentinel(T) == T \in NumTypes

\* InvalidSentinel::invalid_sentinel: one fixed value of the type
invalid_sentinel(T) == [k |-> "invalid", n |-> Zero]

\* variant of unwrap_or_invalid: only range errors give the sentinel, every
\* other error the value it carries
unwrap_or_invalid_range_only(T, r) ==
    IF r.tag = "Ok" THEN r.val
    ELSE IF r.err \in {"Underflow", "Overflow"} THEN invalid_sentinel(T)
    ELSE r.val

\* UnwrapOrInvalid::unwrap_or_invalid for Result<T, E>
unwrap_or_invalid(T, r) ==
    IF r.tag = "Ok" THEN r.val ELSE invalid_sentinel(T)

\* ------------------------------------------------------------------------
\* Inputs
\* ------------------------------------------------------------------------

\* how far around each boundary the source values are drawn
Delta == 1

\* exponents k of the boundaries 2^k and -2^k the rules compare against
AnchorExps == {7, 8, 15, 16, 24, 31, 32, 53, 63, 64}

\* the boundaries, and 400 of the crate's Wrapping example
Anchors == {Zero, BI(400)} \cup {Pow2(k) : k \in AnchorExps}
                           \cup {Neg(Pow2(k)) : k \in AnchorExps}

\* the limits of the code points: 0xD800, 0xE000 and 0x110000
CharAnchors == {BI(55296), BI(57344), BI(1114112)}

IntSamples(p, t) ==
    {v \in {IntV(Add(a, BI(d))) : a \in Anchors \cup CharAnchors, d \in (0 - Delta)..Delta} :
        ILeq(min_of(p, t), v) /\ ILeq(v, max_of(p, t))}

\* floats at quarter steps around each boundary, and at ulp steps where the
\* float spacing exceeds 1
FloatCandidates(t) ==
    {Add(ShiftL(a, FracBits), ShiftL(BI(d), FracBits - 2)) :
        a \in Anchors, d \in (0 - 4 * Delta)..(4 * Delta)}
    \cup
    UNION {{Add(ShiftL(Pow2(k), FracBits), ShiftL(BI(d), k - Prec(t) + 1 + FracBits)),
            Neg(Add(ShiftL(Pow2(k), FracBits), ShiftL(BI(d), k - Prec(t) + 1 + FracBits)))} :
           k \in {j \in AnchorExps : j >= Prec(t)}, d \in (0 - Delta)..Delta}

\* floats around ::std::f32::MAX and ::std::f32::MIN: the neighbours at the
\* type's spacing there (2^104 for f32, 2^75 for f64), and for f64 the
\* midpoint between f32::MAX and 2^128, and 2^128
F32Edges(t) ==
    LET ulp == ShiftL(Pow2(IF t = "f32" THEN 104 ELSE 75), FracBits)
        near == {Sub(F32_MAX.n, ulp), F32_MAX.n, Add(F32_MAX.n, ulp),
                 Add(F32_MAX.n, ShiftL(Pow2(103), FracBits)),
                 ShiftL(Pow2(128), FracBits)}
        pos == {c \in near : t = "f64" \/ Leq(c, F32_MAX.n)}
    IN  pos \cup {Neg(c) : c \in pos}

FloatSamples(t) ==
    {NaN, PosInf, NegInf}
    \cup {FinV(q) : q \in {c \in FloatCandidates(t) \cup F32Edges(t) :
                              RoundToPrec(c, Prec(t)) = c}}

\* every char is a u32 that ::std::char::from_u32 accepts
CharSamples ==
    {CharV(v.n) : v \in {x \in IntSamples(32, "u32") : char_from_u32(x) = "Some"}}

Samples(p, t) ==
    CASE t \in IntTypes -> IntSamples(p, t)
      [] t \in FloatTypes -> FloatSamples(t)
      [] OTHER -> CharSamples

\* ------------------------------------------------------------------------
\* State machine: one conversion call
\* ------------------------------------------------------------------------

VARIABLES
    ptr,     \* target_pointer_width of the build
    srcTy,   \* Src
    dstTy,   \* Dst
    src,     \* the argument
    op,      \* the trait method called, "none" before the call
    scheme,  \* the Scheme parameter of approx_from, "none" otherwise
    res,     \* the returned Result
    out,     \* the value an Unwrap* helper returned, NoOut before
    trail,   \* the Results res was widened or chained from, oldest first
    via      \* the intermediate types of a chain of conversions

vars == <<ptr, srcTy, dstTy, src, op, scheme, res, out, trail, via>>

NoOut == [k |-> "none", n |-> Zero]

Init ==
    /\ ptr \in PtrWidths
    /\ srcTy \in AllTypes
    /\ src \in Samples(ptr, srcTy)
    /\ dstTy \in AllTypes
    /\ op = "none"
    /\ scheme = "none"
    /\ res = NoResult
    /\ out = NoOut
    /\ trail = <<>>
    /\ via = <<>>

\* Dst::value_from(src)
ValueFrom ==
    /\ op = "none"
    /\ has_value_from(ptr, srcTy, dstTy)
    /\ op' = "value_from"
    /\ scheme' = "none"
    /\ res' = value_from(ptr, srcTy, dstTy, src)
    /\ UNCHANGED <<ptr, srcTy, dstTy, src, out, trail, via>>

\* <Dst as ApproxFrom<Src, S>>::approx_from(src)
ApproxFrom(S) ==
    /\ op = "none"
    /\ has_approx_from(ptr, S, srcTy, dstTy)
    /\ op' = "approx_from"
    /\ scheme' = S
    /\ res' \in approx_from(ptr, S, srcTy, dstTy, src)
    /\ UNCHANGED <<ptr, srcTy, dstTy, src, out, trail, via>>

\* Dst::try_from(src)
TryFrom ==
    /\ op = "none"
    /\ has_try_from(srcTy, dstTy)
    /\ op' = "try_from"
    /\ scheme' = "none"
    /\ res' = try_from(ptr, srcTy, dstTy, src)
    /\ UNCHANGED <<ptr, srcTy, dstTy, src, out, trail, via>>

\* res.unwrap_ok(), for a conversion whose Err type is NoError
UnwrapOk ==
    /\ op \in {"value_from", "approx_from", "try_from"}
    /\ res.ety = "NoError"
    /\ op' = "unwrap_ok"
    /\ out' = unwrap_ok(res)
    /\ UNCHANGED <<ptr, srcTy, dstTy, src, scheme, res, trail, via>>

\* res.unwrap_or_saturate()
UnwrapOrSaturate ==
    /\ out = NoOut
    /\ has_saturated(dstTy)
    /\ into_RangeError(res.ety)
    /\ op' = "unwrap_or_saturate"
    /\ out' = unwrap_or_saturate(ptr, dstTy, res)
    /\ UNCHANGED <<ptr, srcTy, dstTy, src, scheme, res, trail, via>>

\* Dst2::value_from(res?), the second link of a chain Src -> Dst -> Dst2:
\* applied to the value of an Ok; an Err of the first link is the chain's
\* outcome (try!, and_then)
ValueFromChain(Dst2) ==
    /\ op = "value_from"
    /\ has_value_from(ptr, dstTy, Dst2)
    /\ op' = "value_from_chain"
    /\ via' = Append(via, dstTy)
    /\ trail' = Append(trail, res)
    /\ dstTy' = Dst2
    /\ res' = IF res.tag = "Ok" THEN value_from(ptr, dstTy, Dst2, res.val) ELSE res
    /\ UNCHANGED <<ptr, srcTy, src, scheme, out>>

Next ==
    \/ ValueFrom
    \/ \E S \in Schemes : ApproxFrom(S)
    \/ TryFrom
    \/ UnwrapOk
    \/ UnwrapOrSaturate

Spec == Init /\ [][Next]_vars

\* a chain of two value_from calls
ChainNext ==
    \/ ValueFrom
    \/ \E Dst2 \in AllTypes : ValueFromChain(Dst2)

ChainSpec == Init /\ [][ChainNext]_vars

\* ------------------------------------------------------------------------
\* State machine: a Result<T, E> handed to the error conversions and the
\* Unwrap* helpers
\* ------------------------------------------------------------------------

\* the Results of type Result<T, E> with Ok value v (an uninhabited E has
\* no Err; an Unrepresentable carries a value)
ResultsOf(E, v) ==
    {Ok(E, v)} \cup {IF e = "Unrepresentable" /\ E = "Unrepresentable"
                     THEN ErrOf(E, e, v) ELSE Err(E, e) : e \in Kinds(E)}

ErrInit ==
    /\ ptr \in PtrWidths
    /\ dstTy \in NumTypes
    /\ srcTy = dstTy
    /\ src \in Samples(ptr, dstTy)
    /\ op = "given"
    /\ scheme = "none"
    /\ res \in UNION {ResultsOf(E, src) : E \in ErrorTypes}
    /\ out = NoOut
    /\ trail = <<>>
    /\ via = <<>>

\* res.map_err(From::from), as try! does, into the wider error type B
Widen(B) ==
    /\ out = NoOut
    /\ <<res.ety, B>> \in FromImpls
    /\ op' = "from"
    /\ trail' = Append(trail, res)
    /\ res' = map_err_from(res, B)
    /\ UNCHANGED <<ptr, srcTy, dstTy, src, scheme, out, via>>

\* res.unwrap_or_inf()
UnwrapOrInf ==
    /\ out = NoOut
    /\ has_signed_infinity(dstTy)
    /\ into_RangeError(res.ety)
    /\ op' = "unwrap_or_inf"
    /\ out' = unwrap_or_inf(dstTy, res)
    /\ UNCHANGED <<ptr, srcTy, dstTy, src, scheme, res, trail, via>>

\* res.unwrap_or_invalid()
UnwrapOrInvalid ==
    /\ out = NoOut
    /\ has_invalid_sentinel(dstTy)
    /\ res.tag \in {"Ok", "Err"}
    /\ op' = "unwrap_or_invalid"
    /\ out' = unwrap_or_invalid(dstTy, res)
    /\ UNCHANGED <<ptr, srcTy, dstTy, src, scheme, res, trail, via>>

ErrNext ==
    \/ \E B \in ErrorTypes : Widen(B)
    \/ UnwrapOrSaturate
    \/ UnwrapOrInf
    \/ UnwrapOrInvalid

ErrSpec == ErrInit /\ [][ErrNext]_vars

\* ------------------------------------------------------------------------
\* Properties
\* ------------------------------------------------------------------------

\* the category of the rule the call dispatches to, "none" for the blanket
\* and float-to-float impls
Category ==
    IF srcTy # dstTy /\ RulesFor(ptr, srcTy, dstTy) # {}
    THEN TheRule(ptr, srcTy, dstTy).rule
    ELSE "none"

Failed(e) == res.tag = "Err" /\ res.err = e

\* the result is Ok of a value numerically equal to the source (a non-finite
\* float is equal to the same non-finite float)
OkEqualToSrc ==
    /\ res.tag = "Ok"
    /\ IF src.k \in {"int", "fin"}
       THEN res.val.k \in {"int", "fin"} /\ Num(res.val) = Num(src)
       ELSE res.val.k = src.k

\* the result value is of the destination type's kind
OkKindOfDst == (res.val.k = "int") <=> (dstTy \in IntTypes)

\* C1 (as claimed): for every n+ pair and both pointer widths, value_from
\* fails with Underflow iff src < 0, with Overflow iff src > DstMAX, and
\* otherwise returns Ok of the numerically equal value.
C1_NarrowSignedToUnsigned ==
    (op = "value_from" /\ Category = "n+") =>
        /\ Failed("Underflow") <=> Less(src.n, Zero)
        /\ Failed("Overflow") <=> Less(max_of(ptr, dstTy).n, src.n)
        /\ (~ Less(src.n, Zero) /\ ~ Less(max_of(ptr, dstTy).n, src.n))
               => (OkEqualToSrc /\ OkKindOfDst)

\* C2: for every n- and n pair, value_from fails with Overflow iff
\* src > DstMAX, with Underflow iff src < DstMIN (never for n-), and otherwise
\* returns Ok of the numerically equal value.
C2_NarrowInRange ==
    (op = "value_from" /\ Category \in {"n-", "n"}) =>
        /\ Failed("Overflow") <=> Less(max_of(ptr, dstTy).n, src.n)
        /\ Failed("Underflow") <=> Less(src.n, min_of(ptr, dstTy).n)
        /\ (Category = "n-") => ~ Failed("Underflow")
        /\ (~ Less(src.n, min_of(ptr, dstTy).n) /\ ~ Less(max_of(ptr, dstTy).n, src.n))
               => (OkEqualToSrc /\ OkKindOfDst)

\* C2 witness: an n pair underflowed, or an n- pair returned DstMAX itself.
C2_Witness ==
    /\ op = "value_from"
    /\ \/ Category = "n" /\ Failed("Underflow") /\ srcTy = "isize" /\ dstTy = "i32"
       \/ Category = "n-" /\ res.tag = "Ok" /\ res.val = max_of(ptr, dstTy)
                          /\ srcTy = "u64" /\ dstTy = "isize"

\* C3: for every w+ pair, value_from fails with Underflow iff src < 0,
\* otherwise returns Ok of the numerically equal value, and never reports
\* Overflow.
C3_WidenSignedToUnsigned ==
    (op = "value_from" /\ Category = "w+") =>
        /\ Failed("Underflow") <=> Less(src.n, Zero)
        /\ ~ Failed("Overflow")
        /\ (~ Less(src.n, Zero)) => (OkEqualToSrc /\ OkKindOfDst)

\* C3 witness: u8::value_from(-1i8) failed with Underflow.
C3_Witness ==
    /\ op = "value_from" /\ Category = "w+"
    /\ srcTy = "i8" /\ dstTy = "u8" /\ src = IntV(BI(-1))
    /\ Failed("Underflow")

\* the call is in the exact/widening category: an e or w rule, or f32 -> f64
ExactCategory ==
    \/ Category \in {"e", "w"}
    \/ srcTy = "f32" /\ dstTy = "f64"

\* C4: every conversion of the exact/widening category succeeds for every
\* source value, under value_from and under approx_from, with a result
\* numerically equal to the source.
C4_ExactAlwaysSucceeds ==
    (op \in {"value_from", "approx_from"} /\ ExactCategory) =>
        (OkEqualToSrc /\ OkKindOfDst /\ res.ety = "NoError")

\* C4 witness: a negative integer widened to a float by approx_from, and the
\* most negative i32 widened to isize.
C4_Witness ==
    /\ ExactCategory
    /\ \/ op = "approx_from" /\ srcTy = "i16" /\ dstTy = "f32"
          /\ Less(src.n, Zero) /\ res.tag = "Ok"
       \/ op = "value_from" /\ srcTy = "i32" /\ dstTy = "isize"
          /\ src = min_of(ptr, "i32") /\ res.tag = "Ok"

\* C5: for every numeric type T, value_from, try_from and approx_from under
\* every scheme applied to T -> T return Ok(src), the input unchanged, also
\* for NaN and the infinities; each of these calls exists.
C5_Reflexive ==
    (srcTy = dstTy) =>
        /\ has_value_from(ptr, srcTy, dstTy)
        /\ has_try_from(srcTy, dstTy)
        /\ \A S \in Schemes : has_approx_from(ptr, S, srcTy, dstTy)
        /\ (op # "none") => (res.tag = "Ok" /\ res.val = src)

\* C5 witness: a NaN converted f64 -> f64 by approx_from with a rounding scheme.
C5_Witness ==
    /\ srcTy = "f64" /\ dstTy = "f64" /\ src = NaN
    /\ op = "approx_from" /\ scheme = "RoundToNearest"
    /\ res.tag = "Ok"

\* the source and destination are both integer types
IntPair == srcTy \in IntTypes /\ dstTy \in IntTypes

\* C6: integer -> float value_from on the pairs with a precision bound
\* B = 2^24 (f32) or 2^53 (f64) succeeds iff |src| <= B, then yielding the
\* float numerically equal to src; it fails with Overflow iff src > B and
\* with Underflow iff src < -B; the bounded pairs are exactly the listed ones.
C6_IntToFloatBound ==
    LET BoundedPairs == {<<"i32", "f32">>, <<"i64", "f32">>, <<"u32", "f32">>,
                         <<"u64", "f32">>, <<"i64", "f64">>, <<"u64", "f64">>}
    IN
    /\ (srcTy \in IntTypes /\ dstTy \in FloatTypes /\ has_value_from(ptr, srcTy, dstTy))
           => ((Category \in {"nf+-", "nf,"}) <=> (<<srcTy, dstTy>> \in BoundedPairs))
    /\ (op = "value_from" /\ Category \in {"nf+-", "nf,"}) =>
           LET B == Pow2(Prec(dstTy))
           IN  /\ (res.tag = "Ok") <=> Leq(Abs(src.n), B)
               /\ Failed("Overflow") <=> Less(B, src.n)
               /\ Failed("Underflow") <=> Less(src.n, Neg(B))
               /\ (res.tag = "Ok") => (OkEqualToSrc /\ OkKindOfDst)

\* C6 witness: f32::value_from(16_777_217i32) failed with Overflow.
C6_Witness ==
    /\ op = "value_from" /\ srcTy = "i32" /\ dstTy = "f32"
    /\ src = IntV(BI(16777217))
    /\ Failed("Overflow")

\* C7: for every ordered pair of integer types and every source value,
\* approx_from with the Wrapping scheme exists, returns Ok, and the result is
\* the value of the destination type congruent to src modulo 2^w, w the
\* destination's bit width.
C7_WrappingTotal ==
    IntPair =>
        /\ has_approx_from(ptr, "Wrapping", srcTy, dstTy)
        /\ (op = "approx_from" /\ scheme = "Wrapping") =>
               /\ res.tag = "Ok"
               /\ res.val.k = "int"
               /\ ILeq(min_of(ptr, dstTy), res.val)
               /\ ILeq(res.val, max_of(ptr, dstTy))
               /\ ModPow2(Sub(res.val.n, src.n), Bits(ptr, dstTy)) = Zero

\* C7 witness: 400u16 wrapped to 144u8.
C7_Witness ==
    /\ op = "approx_from" /\ scheme = "Wrapping"
    /\ srcTy = "u16" /\ dstTy = "u8" /\ src = IntV(BI(400))
    /\ res.tag = "Ok" /\ res.val = IntV(BI(144))

\* C8: for every ordered pair of integer types and every source value,
\* approx_from with DefaultApprox returns the outcome of value_from: the
\* same Ok value or the same failure kind, with the same error type.
C8_DefaultApproxIsValueFrom ==
    (IntPair /\ op = "approx_from" /\ scheme = "DefaultApprox") =>
        /\ has_value_from(ptr, srcTy, dstTy)
        /\ res = value_from(ptr, srcTy, dstTy, src)

\* C8 witness: DefaultApprox failed with Overflow on a narrowing unsigned
\* source, and with Underflow on a negative source.
C8_Witness ==
    /\ op = "approx_from" /\ scheme = "DefaultApprox" /\ IntPair
    /\ srcTy # dstTy
    /\ \/ Category = "n-" /\ Failed("Overflow")
       \/ Category = "n" /\ Failed("Underflow")

\* C9: converting NaN of either float type to any integer type under any of
\* the five schemes fails with NotANumber: never Ok, Underflow or Overflow.
C9_NaNToInt ==
    LET FloatToIntSchemes == {"DefaultApprox", "RoundToNearest", "RoundToNegInf",
                              "RoundToPosInf", "RoundToZero"}
    IN
    (srcTy \in FloatTypes /\ dstTy \in IntTypes /\ src = NaN) =>
        /\ \A S \in FloatToIntSchemes : has_approx_from(ptr, S, srcTy, dstTy)
        /\ (op = "approx_from") => (scheme \in FloatToIntSchemes /\ Failed("NotANumber"))

\* C9 witness: NaN of type f32 converted to u64 with RoundToZero.
C9_Witness ==
    /\ op = "approx_from" /\ scheme = "RoundToZero"
    /\ srcTy = "f32" /\ dstTy = "u64" /\ src = NaN
    /\ Failed("NotANumber")

\* C10 (as claimed): for every float source, integer destination and
\* scheme, a non-NaN source whose scheme-transformed value is greater than
\* the destination's true maximum (or is +infinity) fails with Overflow, and
\* one whose transformed value is less than the true minimum (or is
\* -infinity) fails with Underflow.
C10_FloatToIntOutOfRange ==
    (op = "approx_from" /\ srcTy \in FloatTypes /\ dstTy \in IntTypes /\ src # NaN) =>
        LET t == fan_conv(scheme, src)
            hi == ShiftL(max_of(ptr, dstTy).n, FracBits)
            lo == ShiftL(min_of(ptr, dstTy).n, FracBits)
        IN  /\ (t.k = "pinf" \/ (t.k = "fin" /\ Less(hi, t.n))) => Failed("Overflow")
            /\ (t.k = "ninf" \/ (t.k = "fin" /\ Less(t.n, lo))) => Failed("Underflow")

\* the call is a float -> integer approx_from
FloatToInt == op = "approx_from" /\ srcTy \in FloatTypes /\ dstTy \in IntTypes

\* C11 (as claimed): whenever a float -> integer approx_from returns Ok(v),
\* v is numerically equal to the scheme's approximation of the source:
\* truncation toward zero for DefaultApprox and RoundToZero, round half away
\* from zero for RoundToNearest, floor for RoundToNegInf, ceil for
\* RoundToPosInf; never a saturated or wrapped substitute.
C11_OkIsSchemeApproximation ==
    (FloatToInt /\ res.tag = "Ok") =>
        LET a == CASE scheme = "RoundToNearest" -> round(src)
                   [] scheme = "RoundToNegInf" -> floor(src)
                   [] scheme = "RoundToPosInf" -> ceil(src)
                   [] OTHER -> trunc(src)
        IN  /\ src.k = "fin"
            /\ res.val.k = "int"
            /\ ShiftL(res.val.n, FracBits) = a.n

\* C12 (as claimed): under DefaultApprox every non-NaN float source whose
\* truncation toward zero lies within [DstMIN, DstMAX] converts successfully
\* to that truncated integer.
C12_DefaultApproxTruncatesThenChecks ==
    (FloatToInt /\ scheme = "DefaultApprox" /\ src.k = "fin") =>
        LET t == ShiftR(TruncQ(src.n), FracBits)
        IN  (Leq(min_of(ptr, dstTy).n, t) /\ Leq(t, max_of(ptr, dstTy).n))
                => (res.tag = "Ok" /\ res.val = IntV(t))

\* C13: f64 -> f32 approx_from passes a non-finite source through as the same
\* non-finite f32; a finite source fails with Underflow iff src < f32::MIN,
\* with Overflow iff src > f32::MAX, and otherwise succeeds with a finite f32.
C13_F64ToF32 ==
    (op = "approx_from" /\ srcTy = "f64" /\ dstTy = "f32") =>
        IF src.k # "fin"
        THEN res.tag = "Ok" /\ res.val = src
        ELSE /\ Failed("Underflow") <=> Less(src.n, F32_MIN.n)
             /\ Failed("Overflow") <=> Less(F32_MAX.n, src.n)
             /\ (~ Less(src.n, F32_MIN.n) /\ ~ Less(F32_MAX.n, src.n)) =>
                    /\ res.tag = "Ok"
                    /\ res.val.k = "fin"
                    /\ RoundToPrec(res.val.n, Prec("f32")) = res.val.n
                    /\ Leq(F32_MIN.n, res.val.n) /\ Leq(res.val.n, F32_MAX.n)

\* C13 witness: the f64 just above f32::MAX failed with Overflow, or the f64
\* just below it succeeded with f32::MAX.
C13_Witness ==
    /\ op = "approx_from" /\ srcTy = "f64" /\ dstTy = "f32" /\ src.k = "fin"
    /\ \/ Failed("Overflow") /\ Less(src.n, ShiftL(Pow2(128), FracBits))
       \/ res.tag = "Ok" /\ res.val = F32_MAX /\ src # F32_MAX

\* C14: try_from integer -> char exists for every integer type and succeeds
\* iff 0 <= v <= 0x10FFFF and v is not in 0xD800..=0xDFFF, then yielding the
\* char with code point v; every other value fails with Unrepresentable
\* carrying the source integer; u8 -> char never fails.
C14_IntToChar ==
    (srcTy \in IntTypes /\ dstTy = "char") =>
        /\ has_try_from(srcTy, dstTy)
        /\ (op = "try_from") =>
               LET v == src.n
                   valid == /\ Leq(Zero, v) /\ Leq(v, BI(1114111))
                            /\ ~ (Leq(BI(55296), v) /\ Leq(v, BI(57343)))
               IN  /\ (res.tag = "Ok") <=> valid
                   /\ valid => res.val = CharV(v)
                   /\ (~ valid) => (Failed("Unrepresentable") /\ res.val = src)
                   /\ (srcTy = "u8") => res.tag = "Ok"

\* C14 witness: a surrogate u16, and a negative i64, were rejected with the
\* source as payload.
C14_Witness ==
    /\ op = "try_from" /\ dstTy = "char" /\ Failed("Unrepresentable") /\ res.val = src
    /\ \/ srcTy = "u16" /\ src = IntV(BI(55296))
       \/ srcTy = "i64" /\ Less(src.n, Zero)

\* C15: try_from char -> integer exists for every integer type and succeeds
\* iff the code point is <= the destination's maximum, then yielding the code
\* point; otherwise it fails with Overflow; for u32, i64, u64, usize and
\* isize it never fails, and try_from u32 -> char of the resulting u32
\* returns the original char.
C15_CharToInt ==
    (srcTy = "char" /\ dstTy \in IntTypes) =>
        /\ has_try_from(srcTy, dstTy)
        /\ (op = "try_from") =>
               LET fits == Leq(src.n, max_of(ptr, dstTy).n)
               IN  /\ (res.tag = "Ok") <=> fits
                   /\ fits => res.val = IntV(src.n)
                   /\ (~ fits) => Failed("Overflow")
                   /\ (dstTy \in {"u32", "i64", "u64", "usize", "isize"}) => res.tag = "Ok"
                   /\ (dstTy = "u32") =>
                          LET back == try_from(ptr, "u32", "char", res.val)
                          IN  back.tag = "Ok" /\ back.val = src

\* C15 witness: the char U+0080 overflowed i8, and U+10FFFF converted to u32.
C15_Witness ==
    /\ op = "try_from" /\ srcTy = "char"
    /\ \/ dstTy = "i8" /\ src = CharV(BI(128)) /\ Failed("Overflow")
       \/ dstTy = "u32" /\ src = CharV(BI(1114111)) /\ res.tag = "Ok"

\* C16: error widening is path-independent: the value a chain of From
\* conversions ends in is the one the direct From conversion from the chain's
\* first type gives, so any two chains between the same types agree; and
\* Underflow stays Underflow, Overflow stays Overflow at every level.
C16_WideningPathIndependent ==
    (trail # <<>>) =>
        LET o == trail[1]
        IN  /\ <<o.ety, res.ety>> \in FromImpls
            /\ res = map_err_from(o, res.ety)
            /\ (o.tag = "Err" /\ o.err \in {"Underflow", "Overflow"}) => res.err = o.err
            /\ \A i \in 1..Len(trail) :
                   (o.tag = "Err" /\ o.err \in {"Underflow", "Overflow"})
                       => trail[i].err = o.err

\* C16 witness: Underflow widened along Underflow -> RangeError ->
\* FloatError -> GeneralError.
C16_Witness ==
    /\ Len(trail) = 3
    /\ trail[1] = Err("Underflow", "Underflow")
    /\ trail[2].ety = "RangeError" /\ trail[3].ety = "FloatError"
    /\ res = Err("GeneralError", "Underflow")

\* C17 (as claimed): the widening relation of the From conversions is
\* one-directional and transitively closed over the seven error types, with
\* unique top GeneralError (every other type widens into it) and unique
\* bottom NoError (it widens into every other type).
C17_WideningPartialOrder ==
    LET W(A, B) == <<A, B>> \in FromImpls
    IN  /\ \A A \in ErrorTypes, B \in ErrorTypes : W(A, B) => (A # B /\ ~ W(B, A))
        /\ \A A \in ErrorTypes, B \in ErrorTypes, C \in ErrorTypes :
               (W(A, B) /\ W(B, C)) => W(A, C)
        /\ \A A \in ErrorTypes \ {"GeneralError"} : W(A, "GeneralError")
        /\ \A B \in ErrorTypes : ~ W("GeneralError", B)
        /\ \A B \in ErrorTypes \ {"NoError"} : W("NoError", B)
        /\ \A A \in ErrorTypes : ~ W(A, "NoError")
        /\ (res.ety = "NoError") => \A B \in ErrorTypes \ {"NoError"} : ENABLED Widen(B)

\* the image in GeneralError of kind k of error type E
GeneralImage(E, k) == from(E, "GeneralError", k)

\* C18 (as claimed): the kinds Underflow, Overflow, NotANumber and
\* Unrepresentable each have their own image in GeneralError: a kind widened
\* into GeneralError never gets the image of a different kind.
C18_GeneralErrorSeparatesKinds ==
    (trail # <<>> /\ res.tag = "Err" /\ res.ety = "GeneralError") =>
        LET o == trail[Len(trail)]
        IN  \A E \in {A \in ErrorTypes : <<A, "GeneralError">> \in FromImpls} :
                \A k \in Kinds(E) : (k # o.err) => GeneralImage(E, k) # res.err

\* C18 (amended): Underflow, Overflow and Unrepresentable have pairwise
\* distinct images in GeneralError, and NotANumber has the image
\* GeneralError::Unrepresentable: a kind widened into GeneralError never
\* gets the image of a different kind, except that NotANumber and
\* Unrepresentable share theirs.
C18_GeneralErrorSeparatesKindsButNaN ==
    (trail # <<>> /\ res.tag = "Err" /\ res.ety = "GeneralError") =>
        LET o == trail[Len(trail)]
            folded == {"NotANumber", "Unrepresentable"}
        IN  /\ res.err = (IF o.err \in folded THEN "Unrepresentable" ELSE o.err)
            /\ \A E \in {A \in ErrorTypes : <<A, "GeneralError">> \in FromImpls} :
                   \A k \in Kinds(E) :
                       (k # o.err /\ ~ (k \in folded /\ o.err \in folded))
                           => GeneralImage(E, k) # res.err

\* C18 witness: FloatError::NotANumber widened into
\* GeneralError::Unrepresentable.
C18_Witness ==
    /\ trail # <<>>
    /\ trail[Len(trail)] = Err("FloatError", "NotANumber")
    /\ res = Err("GeneralError", "Unrepresentable")

C20_UnwrapOrSaturate ==
    (op = "unwrap_or_saturate") =>
        CASE res.tag = "Ok" -> out = res.val
          [] res.err = "Overflow" -> out = max_of(ptr, dstTy)
          [] res.err = "Underflow" -> out = min_of(ptr, dstTy)
          [] OTHER -> FALSE

\* C20 witness: a Result<u8, RangeError> holding Overflow saturated to 255.
C20_Witness ==
    /\ op = "unwrap_or_saturate" /\ dstTy = "u8"
    /\ res = Err("RangeError", "Overflow")
    /\ out = IntV(BI(255))

\* C21 (as claimed): for every integer pair whose value_from error widens
\* into RangeError and every source value,
\* value_from(src).unwrap_or_saturate() is src clamped to [DstMIN, DstMAX].
C21_SaturateIsClamp ==
    (IntPair /\ op = "unwrap_or_saturate"
        /\ res = value_from(ptr, srcTy, dstTy, src)) =>
        LET lo == min_of(ptr, dstTy)
            hi == max_of(ptr, dstTy)
        IN  out = (IF Less(src.n, lo.n) THEN lo
                   ELSE IF Less(hi.n, src.n) THEN hi
                   ELSE IntV(src.n))

C23_UnwrapOrInvalid ==
    /\ (op = "unwrap_or_invalid") =>
           IF res.tag = "Ok" THEN out = res.val
           ELSE out = invalid_sentinel(dstTy)
    /\ (out = NoOut) => ENABLED UnwrapOrInvalid

\* C23 witness: a FloatError::NotANumber and an Unrepresentable carrying a
\* value both gave the sentinel.
C23_Witness ==
    /\ op = "unwrap_or_invalid" /\ out = invalid_sentinel(dstTy)
    /\ \/ res = Err("FloatError", "NotANumber")
       \/ res.ety = "Unrepresentable" /\ res.tag = "Err" /\ res.val = src

\* C24 (as claimed): for types A, B, C with ValueFrom rules A -> B, B -> C
\* and a direct rule A -> C (C = A included): if both links of the chain
\* succeed, the direct conversion succeeds with an equal value; if either
\* link fails, the chain fails; for both pointer widths.
C24_ChainAgreesWithDirect ==
    (op = "value_from_chain" /\ has_value_from(ptr, srcTy, dstTy)) =>
        LET direct == value_from(ptr, srcTy, dstTy, src)
            first == trail[Len(trail)]
        IN  /\ (res.tag = "Ok") => (direct.tag = "Ok" /\ direct.val = res.val)
            /\ (first.tag = "Err") => res.tag = "Err"
            /\ (first.tag = "Ok"
                   /\ value_from(ptr, via[Len(via)], dstTy, first.val).tag = "Err")
                   => res.tag = "Err"

\* C25 (as claimed): for each pointer width and every ordered pair of
\* distinct numeric types, exactly one ApproxFrom impl with the
\* DefaultApprox scheme is compiled, and exactly one ValueFrom impl for
\* every pair except float -> integer and f64 -> f32, which have none.
C25_RuleTableComplete ==
    (srcTy \in NumTypes /\ dstTy \in NumTypes /\ srcTy # dstTy) =>
        LET rules == RulesFor(ptr, srcTy, dstTy)
            widenF == srcTy = "f32" /\ dstTy = "f64"
            narrowF == srcTy = "f64" /\ dstTy = "f32"
            nApprox == Cardinality({r \in rules : "DefaultApprox" \in rule_schemes(r.rule)})
                           + (IF widenF \/ narrowF THEN 1 ELSE 0)
            nValue == Cardinality({r \in rules : r.rule # "fan"})
                          + (IF widenF THEN 1 ELSE 0)
            noValue == (srcTy \in FloatTypes /\ dstTy \in IntTypes) \/ narrowF
        IN  /\ nApprox = 1
            /\ nValue = (IF noValue THEN 0 ELSE 1)
            /\ has_approx_from(ptr, "DefaultApprox", srcTy, dstTy)
            /\ has_value_from(ptr, srcTy, dstTy) <=> ~ noValue

\* C26 (as claimed): every rule declares the narrowest error type covering
\* its failures: each failure variant of the error type the called impl
\* declares is produced by at least one source value, so an impl that fails
\* for no source value declares NoError.  (A property of the impl, not of
\* the argument: it is evaluated in the calls whose argument is zero, of
\* which every impl has one.)
C26_NarrowestErrorType ==
    (op \in {"value_from", "approx_from", "try_from"} /\ src.n = Zero) =>
        LET outcomes(v) ==
                CASE op = "value_from" -> {value_from(ptr, srcTy, dstTy, v)}
                  [] op = "try_from" -> {try_from(ptr, srcTy, dstTy, v)}
                  [] OTHER -> approx_from(ptr, scheme, srcTy, dstTy, v)
        IN  \A k \in Kinds(res.ety) :
                \E v \in Samples(ptr, srcTy) :
                    \E r \in outcomes(v) : r.tag = "Err" /\ r.err = k

C28_BoundCastIsExact ==
    (IntPair /\ Category \in {"n+", "n-", "n"}) =>
        /\ AsIntToInt(ptr, max_of(ptr, dstTy), srcTy) = max_of(ptr, dstTy)
        /\ (Category = "n") =>
               AsIntToInt(ptr, min_of(ptr, dstTy), srcTy) = min_of(ptr, dstTy)

====
